---- MODULE Spec2Model ----
(***************************************************************************)
(* Credal network with extreme-point marginal computation (credal.py).     *)
(*                                                                         *)
(* Probabilities are Python floats in the source; here they are exact      *)
(* rationals <<num, den>> in lowest terms (den > 0), so that equality,     *)
(* order, products and the renormalising division are the mathematical    *)
(* ones.                                                                   *)
(***************************************************************************)
EXTENDS Integers, Sequences, FiniteSets, TLC

\* ------------------------------------------------------------------
\* Rational arithmetic (the float operations of credal.py)
\* ------------------------------------------------------------------
\* Bound variables (r, p) rather than LET definitions carry the intermediate
\* values, so that TLC evaluates each of them once.
RECURSIVE GCD(_, _)
GCD(a, b) == IF b = 0 THEN a ELSE CHOOSE g \in {GCD(b, r) : r \in {a % b}} : TRUE

Reduce(p) == IF p[1] = 0 THEN <<0, 1>> ELSE CHOOSE q \in {<<p[1] \div g, p[2] \div g>> : g \in {GCD(p[1], p[2])}} : TRUE

Rat(n, d) == CHOOSE q \in {Reduce(p) : p \in {<<n, d>>}} : TRUE

Zero == Rat(0, 1)
One == Rat(1, 1)

RMul(x, y) == Rat(x[1] * y[1], x[2] * y[2])
RAdd(x, y) == Rat(x[1] * y[2] + y[1] * x[2], x[2] * y[2])
RDiv(x, y) == Rat(x[1] * y[2], x[2] * y[1])
RLeq(x, y) == x[1] * y[2] <= y[1] * x[2]
RLt(x, y) == x[1] * y[2] < y[1] * x[2]

RMin(S) == CHOOSE x \in S : \A y \in S : RLeq(x, y)
RMax(S) == CHOOSE x \in S : \A y \in S : RLeq(y, x)

\* sum(extreme_dict.values())
RECURSIVE SumOver(_, _)
SumOver(f, S) ==
    IF S = {} THEN Zero
    ELSE LET pick == CHOOSE x \in S : TRUE IN RAdd(f[pick], SumOver(f, S \ {pick}))

\* prob = 1.0; for i, state in enumerate(parent_assignment): prob *= combo[i][state]
RECURSIVE ProdOver(_, _, _)
ProdOver(combo, assignment, i) ==
    IF i > Len(assignment) THEN One
    ELSE RMul(combo[i][assignment[i]], ProdOver(combo, assignment, i + 1))

\* itertools.product over a list of sets: all sequences s with s[i] \in sets[i]
Product(sets) ==
    {s \in [1..Len(sets) -> UNION {sets[i] : i \in 1..Len(sets)}] :
        \A i \in 1..Len(sets) : s[i] \in sets[i]}

\* ------------------------------------------------------------------
\* compute_marginal_extreme
\* ------------------------------------------------------------------
\* A dict with no keys: CredalNode.credal_table = {} after construction.
EmptyDict == [k \in {} |-> k]

Ok(v) == [kind |-> "ok", val |-> v]
Raise(e) == [kind |-> e, val |-> EmptyDict]

\* Faulty variant of the base case: the root's bounds rescaled by the total of
\* their low ends, as if the root were one of a child's extreme points.
RootMarginalRescaled(table) ==
    IF <<>> \in DOMAIN table
    THEN LET total == SumOver([s \in DOMAIN table[<<>>] |-> table[<<>>][s][1]], DOMAIN table[<<>>])
         IN  Ok([s \in DOMAIN table[<<>>] |->
                    IF RLt(Zero, total)
                    THEN <<RDiv(table[<<>>][s][1], total), RDiv(table[<<>>][s][2], total)>>
                    ELSE table[<<>>][s]])
    ELSE Raise("KeyError")

\* Base case: node.credal_table[()] copied state by state.
RootMarginal(table) ==
    IF <<>> \in DOMAIN table
    THEN Ok([s \in DOMAIN table[<<>>] |-> table[<<>>][s]])
    ELSE Raise("KeyError")

\* Faulty variant of the renormalisation: the total is taken over the low
\* ends, whatever ends were chosen.
ExtremeByLowTotal(pm, choice) ==
    LET extreme_dict == [s \in DOMAIN pm |-> pm[s][choice[s]]]
        total == SumOver([s \in DOMAIN pm |-> pm[s][1]], DOMAIN pm)
    IN  IF RLt(Zero, total)
        THEN [s \in DOMAIN pm |-> RDiv(extreme_dict[s], total)]
        ELSE extreme_dict

\* One extreme point of a parent marginal: choice[s] picks the low (1) or the
\* high (2) end of each state's bound; the vector is renormalised only when
\* its total is positive, and appended either way.
Extreme(pm, choice) ==
    LET extreme_dict == [s \in DOMAIN pm |-> pm[s][choice[s]]]
        total == SumOver(extreme_dict, DOMAIN pm)
    IN  IF RLt(Zero, total)
        THEN [s \in DOMAIN pm |-> RDiv(extreme_dict[s], total)]
        ELSE extreme_dict

\* Faulty variant of the enumeration: only the all-low and the all-high corner.
ExtremesUniform(pm) == {Extreme(pm, [s \in DOMAIN pm |-> end]) : end \in {1, 2}}

\* product(*[(l, u) for l, u in pm.values()]): every corner of the box.
Extremes(pm) == {Extreme(pm, choice) : choice \in [DOMAIN pm -> {1, 2}]}

\* The joint parent assignments enumerated for one combination of extremes.
Assignments(combo) == Product([i \in 1..Len(combo) |-> DOMAIN combo[i]])

\* prob * low, prob * high
Scale(prob, bound) == RMul(prob, bound)

\* The running min of line 86 and the running max of line 87 over everything
\* enumerated; the inf / -inf start values only mark "nothing seen yet".
LowerBound(S) == RMin(S)
UpperBound(S) == RMax(S)

\* Lines 75-104 over the extreme points `options[i]` of each parent: every
\* combination of extremes and every joint assignment of it gives a
\* probability, which scales the bounds of the assignment's row.
CombineOver(table, options) ==
    IF DOMAIN table = {} THEN Raise("StopIteration")
    ELSE
    LET first == CHOOSE key \in DOMAIN table : TRUE
        node_states == DOMAIN table[first]
        terms == UNION {{<<ProdOver(combo, a, 1), a>> : a \in Assignments(combo)} :
                          combo \in Product(options)}
        missing == \E t \in terms :
                      \/ t[2] \notin DOMAIN table
                      \/ \E s \in node_states : s \notin DOMAIN table[t[2]]
    IN  IF missing THEN Raise("KeyError")
        ELSE Ok([s \in node_states |->
                    IF terms = {} THEN <<Zero, One>>
                    ELSE <<LowerBound({Scale(t[1], table[t[2]][s][1]) : t \in terms}),
                           UpperBound({Scale(t[1], table[t[2]][s][2]) : t \in terms})>>])

\* Recursive case once the parents' marginals are known (lines 52-104).
Combine(table, parent_marginals) ==
    CombineOver(table, [i \in 1..Len(parent_marginals) |-> Extremes(parent_marginals[i])])

\* The outcome of compute_marginal_extreme(node): the parents' marginals are
\* computed first, in list order; the first parent that raises ends the call.
RECURSIVE compute_marginal_extreme(_, _)
compute_marginal_extreme(O, n) ==
    IF O[n].parents = <<>> THEN RootMarginal(O[n].credal_table)
    ELSE LET pr == [i \in 1..Len(O[n].parents) |-> compute_marginal_extreme(O, O[n].parents[i])]
             bad == {i \in 1..Len(pr) : pr[i].kind # "ok"}
         IN  IF bad # {}
             THEN pr[CHOOSE i \in bad : \A j \in bad : i <= j]
             ELSE Combine(O[n].credal_table, [i \in 1..Len(pr) |-> pr[i].val])

\* The outcome of propagate() on registry `order`: the nodes' marginals keyed by
\* name, or the first exception a node's computation raises.
propagate(O, order) ==
    LET res == [i \in 1..Len(order) |-> compute_marginal_extreme(O, order[i])]
        bad == {i \in 1..Len(order) : res[i].kind # "ok"}
    IN  IF bad # {}
        THEN Raise(res[CHOOSE i \in bad : \A j \in bad : i <= j].kind)
        ELSE Ok([nm \in {O[order[i]].name : i \in 1..Len(order)} |->
                    res[CHOOSE i \in 1..Len(order) : O[order[i]].name = nm].val])

\* ------------------------------------------------------------------
\* Bounds of the model
\* ------------------------------------------------------------------
\* Number of CredalNode objects a caller constructs.
MaxNodes == 2
\* Length of a node's parents list.
MaxParents == 2

\* ------------------------------------------------------------------
\* Tables a caller attaches (inputs of set_credal_table)
\* ------------------------------------------------------------------
Iv(a, b, c, d) == <<Rat(a, b), Rat(c, d)>>

States == {"Present", "Absent"}

\* Parent-assignment keys of a node with k parents; the one key of a root is ().
Keys(k) == [1..k -> States]

AnyPresent(key) == \E i \in DOMAIN key : key[i] = "Present"

\* The priors and symptom rows of medical_diagnosis_example.
FluPrior == [Present |-> Iv(1, 20, 1, 10), Absent |-> Iv(9, 10, 19, 20)]
ColdPrior == [Present |-> Iv(1, 10, 1, 5), Absent |-> Iv(4, 5, 9, 10)]
FeverTable ==
    [key \in Keys(2) |->
        IF key = <<"Present", "Present">>
        THEN [Present |-> Iv(9, 10, 1, 1), Absent |-> Iv(0, 1, 1, 10)]
        ELSE IF key = <<"Present", "Absent">>
        THEN [Present |-> Iv(4, 5, 19, 20), Absent |-> Iv(1, 20, 1, 5)]
        ELSE IF key = <<"Absent", "Present">>
        THEN [Present |-> Iv(7, 10, 17, 20), Absent |-> Iv(3, 20, 3, 10)]
        ELSE [Present |-> Iv(0, 1, 1, 10), Absent |-> Iv(9, 10, 1, 1)]]

\* Rows a test network is made of: point intervals (low == high) ...
Pt == [Present |-> Iv(1, 2, 1, 2), Absent |-> Iv(1, 2, 1, 2)]
Det == [Present |-> Iv(1, 1, 1, 1), Absent |-> Iv(0, 1, 0, 1)]
\* ... proper intervals, each containing Pt ...
Mid == [Present |-> Iv(1, 4, 3, 4), Absent |-> Iv(1, 4, 3, 4)]
Vac == [Present |-> Iv(0, 1, 1, 1), Absent |-> Iv(0, 1, 1, 1)]
\* ... and the degenerate ones: every bound zero, and a single state that may
\* have probability zero.
Nil == [Present |-> Iv(0, 1, 0, 1), Absent |-> Iv(0, 1, 0, 1)]
Sole == [Present |-> Iv(0, 1, 1, 1)]

\* A table whose row depends on whether any parent is Present; the table of a
\* root has the one row `prior`.
RowTable(k, prior, given, alone) ==
    [key \in Keys(k) |-> IF k = 0 THEN prior ELSE IF AnyPresent(key) THEN given ELSE alone]

Noisy(k) == RowTable(k, FluPrior, FeverTable[<<"Absent", "Present">>], FeverTable[<<"Absent", "Absent">>])
Point(k) == RowTable(k, Pt, Pt, Det)
\* Noisy(k) without the row of the all-Absent assignment.
Partial(k) == [key \in {x \in Keys(k) : AnyPresent(x)} |-> Noisy(k)[key]]

\* The tables the callers of Spec attach to a node with k parents.
SpecTables(k) == {Noisy(k), Point(k)} \cup (IF k = 0 THEN {} ELSE {Partial(k)})

RootEntries == {Pt, Det, Mid, Vac, Nil, Sole, FluPrior, ColdPrior}
RowEntries == {Pt, Det, Mid, Vac}

\* The tables the callers of GridSpec attach to a node with k parents.
GridTables(k) ==
    IF k = 0 THEN {RowTable(0, e, e, e) : e \in RootEntries}
    ELSE {RowTable(k, g, g, a) : g \in RowEntries, a \in RowEntries}
         \cup (IF k = 2 THEN {FeverTable} ELSE {})

\* Every interval of table u contains the corresponding interval of table t.
Widens(t, u) ==
    /\ DOMAIN t = DOMAIN u
    /\ \A key \in DOMAIN t :
          /\ DOMAIN t[key] = DOMAIN u[key]
          /\ \A s \in DOMAIN t[key] :
                /\ RLeq(u[key][s][1], t[key][s][1])
                /\ RLeq(t[key][s][2], u[key][s][2])

\* ------------------------------------------------------------------
\* State
\* ------------------------------------------------------------------
VARIABLES
    objs,       \* the CredalNode objects: name, parents, children, credal_table
    nodes,      \* CredalNetwork.nodes: the registered objects, in insertion order
    pc,         \* "idle", or "running" inside a propagate() call
    loop,       \* propagate: what is left of `for node in self.nodes.values()`
    stack,      \* the active compute_marginal_extreme calls: node, parent_marginals so far
    marginals,  \* propagate's local dict
    ret,        \* outcome of the latest propagate() call
    prev,       \* outcome of the call before it
    since,      \* what the caller did to the network since `ret`: "same", "wider", "none"
    rel,        \* the same relation between `prev` and `ret`
    entered,    \* per object, how often compute_marginal_extreme was entered in the pass
    before      \* objs and nodes as they were when the pass was called

vars == <<objs, nodes, pc, loop, stack, marginals, ret, prev, since, rel, entered, before>>

None == [kind |-> "none", val |-> EmptyDict]

NodeNames == <<"A", "B", "C", "D", "E">>

Ids == 1..Len(objs)

Registered == {nodes[i] : i \in 1..Len(nodes)}

\* Parents lists a caller builds from the objects that exist.
ParentLists ==
    UNION {{p \in [1..k -> Ids] : \A i, j \in 1..k : i # j => p[i] # p[j]} : k \in 0..MaxParents}

Init ==
    /\ objs = <<>>
    /\ nodes = <<>>
    /\ pc = "idle"
    /\ loop = <<>>
    /\ stack = <<>>
    /\ marginals = EmptyDict
    /\ ret = None
    /\ prev = None
    /\ since = "none"
    /\ rel = "none"
    /\ entered = <<>>
    /\ before = <<>>

\* What every call of the caller between two passes does to the bookkeeping.
Modified(relation) ==
    /\ since' = relation
    /\ ret' = IF relation = "none" THEN None ELSE ret
    /\ prev' = None
    /\ rel' = "none"
    /\ before' = <<>>
    /\ UNCHANGED <<pc, loop, stack, marginals>>

\* CredalNode(name, parents)
NewNode(parents) ==
    /\ pc = "idle"
    /\ Len(objs) < MaxNodes
    /\ objs' = Append(objs, [name |-> NodeNames[Len(objs) + 1], parents |-> parents,
                             children |-> <<>>, credal_table |-> EmptyDict])
    /\ entered' = [i \in 1..(Len(objs) + 1) |-> 0]
    /\ Modified("none")
    /\ UNCHANGED nodes

\* node.set_credal_table(table)
set_credal_table(n, table) ==
    /\ pc = "idle"
    /\ objs' = [objs EXCEPT ![n].credal_table = table]
    /\ entered' = [i \in Ids |-> 0]
    /\ Modified(IF since = "same" /\ Widens(objs[n].credal_table, table)
                THEN "wider" ELSE "none")
    /\ UNCHANGED nodes

\* The children lists after `for parent in node.parents: parent.add_child(node)`.
RECURSIVE AddChildren(_, _, _, _)
AddChildren(O, parents, i, n) ==
    IF i > Len(parents) THEN O
    ELSE AddChildren([O EXCEPT ![parents[i]].children = Append(@, n)], parents, i + 1, n)

\* network.add_node(node), of a node not registered yet
add_node(n) ==
    /\ pc = "idle"
    /\ n \notin Registered
    /\ nodes' = Append(nodes, n)
    /\ objs' = AddChildren(objs, objs[n].parents, 1, n)
    /\ entered' = [i \in Ids |-> 0]
    /\ Modified("none")

\* ------------------------------------------------------------------
\* propagate(), one call or return of compute_marginal_extreme at a time
\* ------------------------------------------------------------------
Frame(n) == [node |-> n, pms |-> <<>>]

Top == stack[Len(stack)]

\* Line 50 has gathered every parent's marginal (a root has none to gather).
Ready(f) == Len(f.pms) = Len(objs[f.node].parents)

\* What the body of compute_marginal_extreme yields for a ready frame.
Outcome(f) ==
    IF objs[f.node].parents = <<>>
    THEN RootMarginal(objs[f.node].credal_table)
    ELSE Combine(objs[f.node].credal_table, f.pms)

\* Faulty variant of the visit: only the registered nodes without children,
\* leaving the others to the recursion.
VisitLeavesOnly == SelectSeq(nodes, LAMBDA n : objs[n].children = <<>>)

\* The order in which propagate visits the registry.
VisitOrder == nodes

Propagate ==
    /\ pc = "idle"
    /\ pc' = "running"
    /\ loop' = VisitOrder
    /\ marginals' = EmptyDict
    /\ stack' = <<>>
    /\ entered' = [i \in Ids |-> 0]
    /\ prev' = ret
    /\ rel' = since
    /\ before' = <<objs, nodes>>
    /\ UNCHANGED <<objs, nodes, ret, since>>

\* marginals[node.name] = self.compute_marginal_extreme(node): the call
Visit ==
    /\ pc = "running"
    /\ stack = <<>>
    /\ loop # <<>>
    /\ stack' = <<Frame(Head(loop))>>
    /\ entered' = [entered EXCEPT ![Head(loop)] = @ + 1]
    /\ UNCHANGED <<objs, nodes, pc, loop, marginals, ret, prev, since, rel, before>>

\* self.compute_marginal_extreme(p, indent+1) for the next p in node.parents
Descend ==
    /\ pc = "running"
    /\ stack # <<>>
    /\ ~Ready(Top)
    /\ LET p == objs[Top.node].parents[Len(Top.pms) + 1] IN
          /\ stack' = Append(stack, Frame(p))
          /\ entered' = [entered EXCEPT ![p] = @ + 1]
    /\ UNCHANGED <<objs, nodes, pc, loop, marginals, ret, prev, since, rel, before>>

\* A nested call returns its marginal into the caller's parent_marginals.
ReturnToCaller ==
    /\ pc = "running"
    /\ Len(stack) > 1
    /\ Ready(Top)
    /\ Outcome(Top).kind = "ok"
    /\ stack' = [SubSeq(stack, 1, Len(stack) - 1) EXCEPT ![Len(stack) - 1].pms = Append(@, Outcome(Top).val)]
    /\ UNCHANGED <<objs, nodes, pc, loop, marginals, ret, prev, since, rel, entered, before>>

\* Faulty variant of the outermost return: the marginal is also cached in the
\* node, as its table's entry for the empty tuple.
ReturnToLoopCaching ==
    /\ pc = "running"
    /\ Len(stack) = 1
    /\ Ready(Top)
    /\ Outcome(Top).kind = "ok"
    /\ marginals' = [nm \in DOMAIN marginals \cup {objs[Top.node].name} |->
                        IF nm = objs[Top.node].name THEN Outcome(Top).val ELSE marginals[nm]]
    /\ objs' = [objs EXCEPT ![Top.node].credal_table =
                   [key \in DOMAIN @ \cup {<<>>} |-> IF key = <<>> THEN Outcome(Top).val ELSE @[key]]]
    /\ stack' = <<>>
    /\ loop' = Tail(loop)
    /\ UNCHANGED <<nodes, pc, ret, prev, since, rel, entered, before>>

\* The outermost call returns into marginals[node.name].
ReturnToLoop ==
    /\ pc = "running"
    /\ Len(stack) = 1
    /\ Ready(Top)
    /\ Outcome(Top).kind = "ok"
    /\ marginals' = [nm \in DOMAIN marginals \cup {objs[Top.node].name} |->
                        IF nm = objs[Top.node].name THEN Outcome(Top).val ELSE marginals[nm]]
    /\ stack' = <<>>
    /\ loop' = Tail(loop)
    /\ UNCHANGED <<objs, nodes, pc, ret, prev, since, rel, entered, before>>

\* A lookup fails: the exception unwinds every frame and propagate itself.
RaiseError ==
    /\ pc = "running"
    /\ stack # <<>>
    /\ Ready(Top)
    /\ Outcome(Top).kind # "ok"
    /\ ret' = Raise(Outcome(Top).kind)
    /\ pc' = "idle"
    /\ since' = "same"
    /\ stack' = <<>>
    /\ loop' = <<>>
    /\ marginals' = EmptyDict
    /\ UNCHANGED <<objs, nodes, prev, rel, entered, before>>

\* return marginals
Finish ==
    /\ pc = "running"
    /\ stack = <<>>
    /\ loop = <<>>
    /\ ret' = Ok(marginals)
    /\ pc' = "idle"
    /\ since' = "same"
    /\ marginals' = EmptyDict
    /\ UNCHANGED <<objs, nodes, loop, stack, prev, rel, entered, before>>

PassStep == Visit \/ Descend \/ ReturnToCaller \/ ReturnToLoop \/ RaiseError \/ Finish

Build ==
    \/ \E parents \in ParentLists : NewNode(parents)
    \/ \E n \in Ids : \E table \in SpecTables(Len(objs[n].parents)) : set_credal_table(n, table)
    \/ \E n \in Ids : add_node(n)

Next == Build \/ Propagate \/ PassStep

Spec == Init /\ [][Next]_vars

\* ------------------------------------------------------------------
\* A three-node network with its tables attached, widened between whole passes
\* ------------------------------------------------------------------
Node(name, parents) ==
    [name |-> name, parents |-> parents, children |-> <<>>, credal_table |-> EmptyDict]

\* The objects after add_node of each, in order of construction.
RECURSIVE Wired(_, _)
Wired(O, n) ==
    IF n > Len(O) THEN O ELSE Wired(AddChildren(O, O[n].parents, 1, n), n + 1)

\* a = CredalNode("A"); b = CredalNode("B", [a]); c = CredalNode("C", [b])
Chain == Wired(<<Node("A", <<>>), Node("B", <<1>>), Node("C", <<2>>)>>, 1)
\* flu, cold, fever of medical_diagnosis_example
Medical == Wired(<<Node("Flu", <<>>), Node("Cold", <<>>), Node("Fever", <<1, 2>>)>>, 1)

\* The objects after set_credal_table of each.
WithTables(O, tables) == [n \in 1..Len(O) |-> [O[n] EXCEPT !.credal_table = tables[n]]]

GridInit ==
    /\ \E O \in {Chain, Medical} :
          \E tables \in Product([n \in 1..Len(O) |-> GridTables(Len(O[n].parents))]) :
             objs = WithTables(O, tables)
    /\ nodes = <<1, 2, 3>>
    /\ pc = "idle"
    /\ loop = <<>>
    /\ stack = <<>>
    /\ marginals = EmptyDict
    /\ ret = None
    /\ prev = None
    /\ since = "none"
    /\ rel = "none"
    /\ entered = <<0, 0, 0>>
    /\ before = <<>>

\* The caller widens intervals of one node's table after a pass.
Widen ==
    /\ since = "same"
    /\ \E n \in Ids : \E table \in GridTables(Len(objs[n].parents)) :
       /\ table # objs[n].credal_table
       /\ Widens(objs[n].credal_table, table)
       /\ set_credal_table(n, table)

\* marginals = cn.propagate(), the whole call
PropagateCall ==
    /\ pc = "idle"
    /\ ret' = propagate(objs, VisitOrder)
    /\ prev' = ret
    /\ rel' = since
    /\ since' = "same"
    /\ before' = <<objs, nodes>>
    /\ UNCHANGED <<objs, nodes, pc, loop, stack, marginals, entered>>

GridNext == Widen \/ PropagateCall

GridSpec == GridInit /\ [][GridNext]_vars

\* ------------------------------------------------------------------
\* Properties
\* ------------------------------------------------------------------
\* The pass whose outcome is `ret` ran on the network as it is now.
Returned == pc = "idle" /\ since = "same"

IsRoot(n) == objs[n].parents = <<>>

Low(b) == b[1]
High(b) == b[2]

\* C1: within one propagate() call compute_marginal_extreme is entered at most
\* once for every node, shared parents and registered parents included.
C1_EnteredAtMostOnce == \A n \in Ids : entered[n] <= 1

\* Ordinary forward propagation of the low ends of a chain's tables:
\* P(state) = sum over the parent's states of P(parent state) * P(state | parent state).
RECURSIVE Forward(_)
Forward(n) ==
    IF IsRoot(n) THEN [s \in DOMAIN objs[n].credal_table[<<>>] |-> Low(objs[n].credal_table[<<>>][s])]
    ELSE LET parent == Forward(objs[n].parents[1])
             term(s) == [ps \in DOMAIN parent |-> RMul(parent[ps], Low(objs[n].credal_table[<<ps>>][s]))]
         IN  [s \in States |-> SumOver(term(s), DOMAIN parent)]

PointTable(table) == \A key \in DOMAIN table : \A s \in DOMAIN table[key] : Low(table[key][s]) = High(table[key][s])

IsPointChain ==
    /\ objs[1].name = "A"
    /\ \A n \in Ids : PointTable(objs[n].credal_table)

\* C2: on a chain A -> B -> C of point intervals, propagate() returns for every
\* node and state low == high, equal to the forward-propagated probability.
C2_PointChainIsForwardPropagation ==
    (Returned /\ ret.kind = "ok" /\ IsPointChain) =>
        \A n \in Ids : \A s \in DOMAIN ret.val[objs[n].name] :
            ret.val[objs[n].name][s] = <<Forward(n)[s], Forward(n)[s]>>

\* C3: with covered tables of intervals 0 <= low <= high <= 1, every bound
\* propagate() returns satisfies 0 <= low <= high <= 1.
C3_BoundsOrderedInUnitInterval ==
    ret.kind = "ok" =>
        \A nm \in DOMAIN ret.val : \A s \in DOMAIN ret.val[nm] :
            /\ RLeq(Zero, Low(ret.val[nm][s]))
            /\ RLeq(Low(ret.val[nm][s]), High(ret.val[nm][s]))
            /\ RLeq(High(ret.val[nm][s]), One)

\* A non-root node got a proper interval strictly inside (0, 1).
C3_Witness ==
    /\ Returned /\ ret.kind = "ok"
    /\ \E n \in Ids : \E s \in DOMAIN ret.val[objs[n].name] :
          /\ ~IsRoot(n)
          /\ RLt(Zero, Low(ret.val[objs[n].name][s]))
          /\ RLt(Low(ret.val[objs[n].name][s]), High(ret.val[objs[n].name][s]))
          /\ RLt(High(ret.val[objs[n].name][s]), One)

\* The corners of a parent marginal whose total is positive, renormalised.
PositiveExtremes(pm) ==
    {Extreme(pm, choice) : choice \in {c \in [DOMAIN pm -> {1, 2}] :
                                          RLt(Zero, SumOver([s \in DOMAIN pm |-> pm[s][c[s]]], DOMAIN pm))}}

HasZeroCorner(pm) ==
    \E c \in [DOMAIN pm -> {1, 2}] : SumOver([s \in DOMAIN pm |-> pm[s][c[s]]], DOMAIN pm) = Zero

ParentMarginals(n) == [i \in 1..Len(objs[n].parents) |-> ret.val[objs[objs[n].parents[i]].name]]

\* C4: a parent corner that sums to zero is excluded: the child's bounds are
\* those of the enumeration over the parent corners with positive total.
C4_ZeroCornerExcluded ==
    (Returned /\ ret.kind = "ok") =>
        \A n \in Ids :
            (~IsRoot(n) /\ \E i \in 1..Len(objs[n].parents) : HasZeroCorner(ParentMarginals(n)[i])) =>
                Ok(ret.val[objs[n].name]) =
                    CombineOver(objs[n].credal_table,
                                [i \in 1..Len(objs[n].parents) |-> PositiveExtremes(ParentMarginals(n)[i])])

\* The state set of a node: the keys of a row of its table.
StatesOf(n) ==
    IF DOMAIN objs[n].credal_table = {} THEN {}
    ELSE DOMAIN objs[n].credal_table[CHOOSE key \in DOMAIN objs[n].credal_table : TRUE]

\* Some tuple of the cross product of the parents' state sets is no key of the table.
MissingEntry(n) ==
    /\ ~IsRoot(n)
    /\ \E key \in Product([i \in 1..Len(objs[n].parents) |-> StatesOf(objs[n].parents[i])]) :
          key \notin DOMAIN objs[n].credal_table

\* C5: with a parent-state tuple absent from a registered non-root node's
\* table, propagate() ends in a raised lookup error (KeyError) and returns no
\* mapping.
C5_MissingEntryRaisesLookupError ==
    (Returned /\ \E n \in Registered : MissingEntry(n)) => ret.kind = "KeyError"

\* C6: the marginal of a node with no parents is its table's entry for the
\* empty tuple, state by state, wherever the pass holds it: in marginals, in a
\* caller's parent_marginals, in the returned mapping.
C6_RootReturnsOwnEntry ==
    /\ \A n \in Registered :
          (IsRoot(n) /\ objs[n].name \in DOMAIN marginals) =>
              marginals[objs[n].name] = objs[n].credal_table[<<>>]
    /\ \A d \in 1..Len(stack) : \A i \in 1..Len(stack[d].pms) :
          IsRoot(objs[stack[d].node].parents[i]) =>
              stack[d].pms[i] = objs[objs[stack[d].node].parents[i]].credal_table[<<>>]
    /\ (Returned /\ ret.kind = "ok") =>
          \A n \in Registered : IsRoot(n) => ret.val[objs[n].name] = objs[n].credal_table[<<>>]

\* A root's marginal sits in marginals and in its child's parent_marginals.
C6_Witness ==
    /\ pc = "running"
    /\ \E n \in Registered : IsRoot(n) /\ objs[n].name \in DOMAIN marginals
    /\ \E d \in 1..Len(stack) : Len(stack[d].pms) > 0 /\ IsRoot(objs[stack[d].node].parents[1])

IsMedicalExample ==
    /\ objs[3].name = "Fever"
    /\ objs[1].credal_table = RowTable(0, FluPrior, FluPrior, FluPrior)
    /\ objs[2].credal_table = RowTable(0, ColdPrior, ColdPrior, ColdPrior)
    /\ objs[3].credal_table = FeverTable

\* C7: in the medical-diagnosis network the bounds of Fever.Present have a
\* lower bound > 0 and an upper bound <= 1.
C7_FeverPresentLowerBoundPositive ==
    (Returned /\ ret.kind = "ok" /\ IsMedicalExample) =>
        /\ RLt(Zero, Low(ret.val["Fever"]["Present"]))
        /\ RLeq(High(ret.val["Fever"]["Present"]), One)

\* C8: after intervals of a node's table were widened, the bounds of every
\* node and state are at least as wide as before: new low <= old low and
\* new high >= old high.
C8_WideningIsMonotone ==
    (Returned /\ rel \in {"same", "wider"} /\ prev.kind = "ok" /\ ret.kind = "ok") =>
        \A nm \in DOMAIN prev.val : \A s \in DOMAIN prev.val[nm] :
            /\ RLeq(Low(ret.val[nm][s]), Low(prev.val[nm][s]))
            /\ RLeq(High(prev.val[nm][s]), High(ret.val[nm][s]))

\* The root of the chain was widened, and a bound of its grandchild C moved
\* out at both ends.
C8_Witness ==
    /\ Returned /\ rel = "wider" /\ prev.kind = "ok" /\ ret.kind = "ok"
    /\ objs[1].name = "A"
    /\ prev.val["A"] # ret.val["A"]
    /\ \E s \in DOMAIN prev.val["C"] :
          /\ RLt(Low(ret.val["C"][s]), Low(prev.val["C"][s]))
          /\ RLt(High(prev.val["C"][s]), High(ret.val["C"][s]))

\* C9: a pass leaves the nodes' tables, parents and children and the registry
\* as they were when it was called, and a second pass on the unmodified
\* network returns what the first returned.
C9_SecondPassIdentical ==
    /\ pc = "running" => <<objs, nodes>> = before
    /\ (Returned /\ ret.kind = "ok") => <<objs, nodes>> = before
    /\ (Returned /\ rel = "same" /\ prev.kind = "ok") => ret = prev

\* Two passes returned marginals of a network with a registered non-root node.
C9_Witness ==
    /\ Returned /\ rel = "same" /\ prev.kind = "ok" /\ ret.kind = "ok"
    /\ \E n \in Registered : ~IsRoot(n)
    /\ Len(nodes) >= 2

\* Calls and returns a complete compute_marginal_extreme(n) takes: one call
\* and one return for n and for every node its recursion reaches.
RECURSIVE Work(_)
Work(n) ==
    LET RECURSIVE below(_)
        below(i) == IF i > Len(objs[n].parents) THEN 0 ELSE Work(objs[n].parents[i]) + below(i + 1)
    IN  2 + below(1)

RECURSIVE WorkFrom(_, _)
WorkFrom(seq, i) == IF i > Len(seq) THEN 0 ELSE Work(seq[i]) + WorkFrom(seq, i + 1)

\* What call number d of the stack has left to do: its own return, and the
\* parents after the one it holds or waits for.
FrameRest(d) ==
    1 + WorkFrom(objs[stack[d].node].parents,
                 Len(stack[d].pms) + (IF d < Len(stack) THEN 2 ELSE 1))

RECURSIVE RestFrom(_)
RestFrom(d) == IF d > Len(stack) THEN 0 ELSE FrameRest(d) + RestFrom(d + 1)

\* Steps a running pass has left, its return included.
Measure == 1 + RestFrom(1) + WorkFrom(loop, IF stack = <<>> THEN 1 ELSE 2)

\* C10, the state part: the returned mapping has exactly the registered names
\* as keys, each with its node's compute_marginal_extreme result, whatever the
\* order of registration; a call holds only complete marginals of its parents,
\* in list order, and the call above it waits for the next one; the pass is
\* at its return exactly when no step is left.
C10_Inv ==
    /\ (Returned /\ ret.kind = "ok") =>
          /\ DOMAIN ret.val = {objs[n].name : n \in Registered}
          /\ \A n \in Registered : Ok(ret.val[objs[n].name]) = compute_marginal_extreme(objs, n)
    /\ \A d \in 1..Len(stack) :
          /\ Len(stack[d].pms) <= Len(objs[stack[d].node].parents)
          /\ \A i \in 1..Len(stack[d].pms) :
                Ok(stack[d].pms[i]) = compute_marginal_extreme(objs, objs[stack[d].node].parents[i])
          /\ d < Len(stack) => stack[d + 1].node = objs[stack[d].node].parents[Len(stack[d].pms) + 1]
    /\ pc = "running" => (Measure = 1 <=> (stack = <<>> /\ loop = <<>>))

\* Every step inside a pass uses up one of the steps the pass has left.
C10_Progress == (pc = "running" /\ pc' = "running") => Measure' = Measure - 1

\* C10: after any sequence of add_node calls, propagate() terminates (each
\* step of the pass lowers a natural-number measure) and returns a mapping
\* keyed by exactly the registered names, each with its node's
\* compute_marginal_extreme result, every parent's marginal being complete
\* before its child's table is combined.
C10_PropagateCompletes == []C10_Inv /\ [][C10_Progress]_vars

\* A pass returned on a registry that holds a child before its parent.
C10_Witness ==
    /\ Returned /\ ret.kind = "ok"
    /\ Len(nodes) >= 2
    /\ objs[nodes[1]].parents # <<>>
    /\ objs[nodes[1]].parents[1] \in Registered
====
